---- MODULE Spec2Model ----
(***************************************************************************)
(* A model of package memcache (src/memcache/cache.go): an in-process      *)
(* key-value cache with per-entry expiration, a sync.RWMutex over the map, *)
(* an unsynchronised FlushAll and a background goroutine GC that sweeps    *)
(* expired entries in two passes (expiredKeys, clearItems).                *)
(*                                                                         *)
(* Caller goroutines and the GC goroutine interleave at the granularity of *)
(* lock operations and of accesses to the shared field c.m.  A critical    *)
(* section that makes a single access to the map (Get, IsExist, Expire)    *)
(* is one step taken while the lock is held.  Set loads c.m and stores     *)
(* into the map in two steps and Delete looks up and deletes in two steps, *)
(* because each evaluates c.m on its own and FlushAll writes c.m without   *)
(* the lock.  The clock is an integer that Tick advances; time.Now() reads *)
(* it.  TTLs are small enough that time.Now().Add(d).UnixNano() is the sum *)
(* now + d.                                                                *)
(***************************************************************************)
EXTENDS Integers, Sequences, FiniteSets, TLC

\* ---------------------------------------------------------------- bounds
\* The clock runs from 1 to MaxTime.
MaxTime == 3
\* At most MaxFlush calls of FlushAll (each allocates a map).
MaxFlush == 1
\* A caller working alone invokes at most MaxOps operations.
MaxOps == 3
\* GetMulti is called with at most MaxKeys keys.
MaxKeys == 2

\* ------------------------------------------------------------ input sets
Callers == {"c1", "c2"}
Keys == {"k1", "k2"}
\* time.Duration arguments of Set and of NewCache
Durations == {-1, 0, 1, 2}
DefaultExpirations == {0, 1}
CleanupIntervals == {0, 1}

ErrNil == "nil"
ErrKeyNotFound == "key not found"
ErrCacheIsOut == "cache is out of date"
\* the nil interface value; the payload of the n-th operation invoked is n
Nil == 0

VARIABLES
    defaultExpiration,  \* Cache.defaultExpiration
    cleanupInterval,    \* Cache.cleanupInterval
    heap,               \* the maps allocated so far: a sequence of map[string]Value
    m,                  \* Cache.m: the index in heap of the current map
    writer,             \* Cache.mutex: the goroutine holding Lock, or "none"
    readers,            \* Cache.mutex: the goroutines holding RLock
    now,                \* the clock read by time.Now()
    pc,                 \* each caller's position
    loc,                \* each caller's arguments and locals
    ret,                \* the last return value handed to a caller
    gc,                 \* the GC goroutine: position and locals
    lastSet,            \* history: per key, the last Set not followed by Delete or FlushAll
    sinceFlush,         \* history: keys stored since the last FlushAll (all keys before the first)
    ops,                \* history: operations invoked so far
    own,                \* history: per caller and key, after the caller's own Set or Delete
                        \* of the key: the payloads (Nil: no entry) the key may hold for it
    left                \* bound: the operations each caller may still invoke

vars == <<defaultExpiration, cleanupInterval, heap, m, writer, readers, now,
          pc, loc, ret, gc, lastSet, sinceFlush, ops, own, left>>

\* ------------------------------------------------------------------ data
\* type Value struct.  CreatedAt is written by Set and read nowhere in the
\* package; the entries of the model leave it out.
Value(value, expiration) == [Value |-> value, Expiration |-> expiration]

\* make(map[string]Value, size): the capacity hint does not limit the map
NewMap == [k \in {} |-> Value(Nil, 0)]

\* A map assignment that stores nothing.
MapAssignLost(mp, k, e) == mp

\* m[k] = e
MapAssign(mp, k, e) == [x \in (DOMAIN mp) \cup {k} |-> IF x = k THEN e ELSE mp[x]]

\* delete(m, k)
MapDelete(mp, k) == [x \in (DOMAIN mp) \ {k} |-> mp[x]]

NoLoc == [op |-> "none", key |-> "none", val |-> Nil, ttl |-> 0, exp |-> 0,
          mref |-> 0, keys |-> <<>>, rc |-> <<>>]
NoRet == [op |-> "none", key |-> "none", val |-> Nil, err |-> ErrNil,
          ok |-> FALSE, rc |-> <<>>]
NoSet == [set |-> FALSE, val |-> Nil, ttl |-> 0, exp |-> 0]
GCIdle(p, due) == [pc |-> p, due |-> due, mref |-> 0, todo |-> {}, keys |-> <<>>]

\* sync.RWMutex: Lock waits for the writer and the readers to leave, RLock for
\* the writer.  (A waiting Lock also holds back new readers; the model lets
\* them in, which adds interleavings and takes none away.)
CanLock == writer = "none" /\ readers = {}

\* An RLock that does not wait for the writer.
CanRLockAlways == TRUE
CanRLock == writer = "none"

\* The workloads: one caller invoking up to MaxOps operations one after the
\* other, or two callers invoking one operation each, concurrently.  In both
\* the GC goroutine runs beside the callers when it was started.
Workloads == {[t \in Callers |-> IF t = "c1" THEN MaxOps ELSE 0],
              [t \in Callers |-> 1]}

\* A NewCache that starts the GC goroutine whatever cleanupInterval is.
InitStartsGC ==
    /\ defaultExpiration \in DefaultExpirations
    /\ cleanupInterval \in CleanupIntervals
    /\ heap = <<NewMap>>
    /\ m = 1
    /\ writer = "none"
    /\ readers = {}
    /\ now = 1
    /\ pc = [t \in Callers |-> "idle"]
    /\ loc = [t \in Callers |-> NoLoc]
    /\ ret = NoRet
    /\ gc = GCIdle("wait", now + cleanupInterval)
    /\ lastSet = [k \in Keys |-> NoSet]
    /\ sinceFlush = Keys
    /\ ops = 0
    /\ own = [t \in Callers |-> [k \in Keys |-> {}]]
    /\ left \in Workloads

\* NewCache: the state after construction
Init ==
    /\ defaultExpiration \in DefaultExpirations
    /\ cleanupInterval \in CleanupIntervals
    /\ heap = <<NewMap>>
    /\ m = 1
    /\ writer = "none"
    /\ readers = {}
    /\ now = 1
    /\ pc = [t \in Callers |-> "idle"]
    /\ loc = [t \in Callers |-> NoLoc]
    /\ ret = NoRet
    /\ gc = IF cleanupInterval > 0 THEN GCIdle("wait", now + cleanupInterval)
                                   ELSE GCIdle("off", 0)
    /\ lastSet = [k \in Keys |-> NoSet]
    /\ sinceFlush = Keys
    /\ ops = 0
    /\ own = [t \in Callers |-> [k \in Keys |-> {}]]
    /\ left \in Workloads

\* own after caller t has called Set or Delete of k, to leave the key with
\* payload p: kept for the callers that have an operation left to read it with
OwnWrite(t, k, p) ==
    IF left[t] > 1 THEN [own EXCEPT ![t][k] = {p}] ELSE own

\* own after goroutine t has put key k in state p: a state the other callers
\* may find after their own writes of k
OtherWrite(t, k, p) ==
    [u \in Callers |-> [j \in Keys |->
        IF u # t /\ j = k /\ own[u][j] # {} THEN own[u][j] \cup {p} ELSE own[u][j]]]

\* own after caller t has replaced the map
OwnFlush(t) ==
    [u \in Callers |-> [j \in Keys |->
        IF u # t /\ own[u][j] # {} THEN own[u][j] \cup {Nil} ELSE {}]]

\* The clock advances.
Tick ==
    /\ now < MaxTime
    /\ now' = now + 1
    /\ UNCHANGED <<defaultExpiration, cleanupInterval, heap, m, writer, readers,
                   pc, loc, ret, gc, lastSet, sinceFlush, ops, left, own>>

\* What every step of a caller leaves alone.
Config == <<defaultExpiration, cleanupInterval>>

\* A caller invokes an operation.
Invoke(t, label, l) ==
    /\ pc[t] = "idle"
    /\ left[t] > 0
    /\ left' = [left EXCEPT ![t] = @ - 1]
    /\ ops' = ops + 1
    /\ pc' = [pc EXCEPT ![t] = label]
    /\ loc' = [loc EXCEPT ![t] = l]
    /\ ret' = NoRet

\* A caller returns r.
Return(t, r) ==
    /\ pc' = [pc EXCEPT ![t] = "idle"]
    /\ loc' = [loc EXCEPT ![t] = NoLoc]
    /\ ret' = r

\* ------------------------------------------------------------------- Set
\* A Set that takes the default for every non-positive duration.
ExpirationDefaultForNegative(duration) ==
    LET d == IF duration <= 0 THEN defaultExpiration ELSE duration
    IN IF d > 0 THEN now + d ELSE 0

\* Set, lines 60-68: the expiration of the entry
Expiration(duration) ==
    LET d == IF duration = 0 THEN defaultExpiration ELSE duration
    IN IF d > 0 THEN now + d ELSE 0

\* the call, with the expiration computed before the lock is taken; the
\* payload is the number of the operation, so every Set stores its own
SetCall(t, k, d) ==
    /\ Invoke(t, "set_lock", [NoLoc EXCEPT !.op = "Set", !.key = k, !.val = ops + 1,
                                          !.ttl = d, !.exp = Expiration(d)])
    /\ own' = OwnWrite(t, k, ops + 1)
    /\ UNCHANGED <<Config, heap, m, writer, readers, now, gc, lastSet, sinceFlush>>

\* c.mutex.Lock()
SetLock(t) ==
    /\ pc[t] = "set_lock"
    /\ CanLock
    /\ writer' = t
    /\ pc' = [pc EXCEPT ![t] = "set_load"]
    /\ UNCHANGED <<Config, heap, m, readers, now, loc, ret, gc, lastSet, sinceFlush, ops, left, own>>

\* the operand c.m of c.m[key] = ...
SetLoad(t) ==
    /\ pc[t] = "set_load"
    /\ loc' = [loc EXCEPT ![t].mref = m]
    /\ pc' = [pc EXCEPT ![t] = "set_write"]
    /\ UNCHANGED <<Config, heap, m, writer, readers, now, ret, gc, lastSet, sinceFlush, ops, left, own>>

\* the entry Set stores
SetValue(l) == Value(l.val, l.exp)

\* the map assignment, the deferred Unlock and the return.  The store goes to
\* the map loaded before; when FlushAll has replaced that map since, lastSet
\* does not record the store.
SetWrite(t) ==
    /\ pc[t] = "set_write"
    /\ heap' = [heap EXCEPT ![loc[t].mref] = MapAssign(@, loc[t].key, SetValue(loc[t]))]
    /\ writer' = "none"
    /\ lastSet' = IF loc[t].mref = m
                  THEN [lastSet EXCEPT ![loc[t].key] =
                            [set |-> TRUE, val |-> loc[t].val, ttl |-> loc[t].ttl,
                             exp |-> loc[t].exp]]
                  ELSE lastSet
    /\ sinceFlush' = sinceFlush \cup {loc[t].key}
    /\ Return(t, [NoRet EXCEPT !.op = "Set", !.key = loc[t].key])
    /\ own' = IF loc[t].mref = m THEN OtherWrite(t, loc[t].key, loc[t].val) ELSE own
    /\ UNCHANGED <<Config, m, readers, now, gc, ops, left>>

\* ------------------------------------------------------------------- Get
\* A Get that takes an entry for stale from the instant of its expiration on.
GetResultStaleAtExpiration(mp, k) ==
    IF k \notin DOMAIN mp THEN <<Nil, ErrKeyNotFound>>
    ELSE IF mp[k].Expiration > 0 /\ now >= mp[k].Expiration THEN <<Nil, ErrCacheIsOut>>
    ELSE <<mp[k].Value, ErrNil>>

\* Get, lines 86-97: the value and the error
GetResult(mp, k) ==
    IF k \notin DOMAIN mp THEN <<Nil, ErrKeyNotFound>>
    ELSE IF mp[k].Expiration > 0 /\ now > mp[k].Expiration THEN <<Nil, ErrCacheIsOut>>
    ELSE <<mp[k].Value, ErrNil>>

GetCall(t, k) ==
    /\ Invoke(t, "get_rlock", [NoLoc EXCEPT !.op = "Get", !.key = k])
    /\ UNCHANGED <<Config, heap, m, writer, readers, now, gc, lastSet, sinceFlush, own>>

\* c.mutex.RLock()
GetRLock(t) ==
    /\ pc[t] = "get_rlock"
    /\ CanRLock
    /\ readers' = readers \cup {t}
    /\ pc' = [pc EXCEPT ![t] = "get_body"]
    /\ UNCHANGED <<Config, heap, m, writer, now, loc, ret, gc, lastSet, sinceFlush, ops, left, own>>

\* A GetMulti that leaves out the keys it did not find.
AppendValueSkipNil(rc, v) == IF v = Nil THEN rc ELSE Append(rc, v)

\* GetMulti, lines 106-107: v, _ := c.Get(key); rc = append(rc, v)
AppendValue(rc, v) == Append(rc, v)

\* A Get that deletes the entry it finds stale.
GetBodyEvicts(t) ==
    /\ pc[t] = "get_body"
    /\ readers' = readers \ {t}
    /\ LET r == GetResult(heap[m], loc[t].key) IN
        /\ heap' = IF r[2] = ErrCacheIsOut
                   THEN [heap EXCEPT ![m] = MapDelete(@, loc[t].key)]
                   ELSE heap
        /\ IF loc[t].op = "GetMulti"
           THEN /\ loc' = [loc EXCEPT ![t].rc = AppendValue(@, r[1]), ![t].key = "none"]
                /\ pc' = [pc EXCEPT ![t] = "gm_loop"]
                /\ ret' = ret
           ELSE Return(t, [NoRet EXCEPT !.op = "Get", !.key = loc[t].key,
                                         !.val = r[1], !.err = r[2]])
    /\ UNCHANGED <<Config, m, writer, now, gc, lastSet, sinceFlush, ops, left, own>>

\* the lookup, the expiry check, the deferred RUnlock and the return; inside
\* GetMulti the value is appended to rc and the loop goes on
GetBody(t) ==
    /\ pc[t] = "get_body"
    /\ readers' = readers \ {t}
    /\ LET r == GetResult(heap[m], loc[t].key) IN
        IF loc[t].op = "GetMulti"
        THEN /\ loc' = [loc EXCEPT ![t].rc = AppendValue(@, r[1]), ![t].key = "none"]
             /\ pc' = [pc EXCEPT ![t] = "gm_loop"]
             /\ ret' = ret
        ELSE Return(t, [NoRet EXCEPT !.op = "Get", !.key = loc[t].key,
                                      !.val = r[1], !.err = r[2]])
    /\ UNCHANGED <<Config, heap, m, writer, now, gc, lastSet, sinceFlush, ops, left, own>>

\* -------------------------------------------------------------- GetMulti
\* the key lists GetMulti is called with
KeyLists == UNION {[1..n -> Keys] : n \in 0..MaxKeys}

GetMultiCall(t, ks) ==
    /\ Invoke(t, "gm_loop", [NoLoc EXCEPT !.op = "GetMulti", !.keys = ks])
    /\ UNCHANGED <<Config, heap, m, writer, readers, now, gc, lastSet, sinceFlush, own>>

\* for _, key := range keys: the next c.Get(key), or return rc
GetMultiLoop(t) ==
    /\ pc[t] = "gm_loop"
    /\ IF Len(loc[t].rc) < Len(loc[t].keys)
       THEN /\ loc' = [loc EXCEPT ![t].key = loc[t].keys[Len(loc[t].rc) + 1]]
            /\ pc' = [pc EXCEPT ![t] = "get_rlock"]
            /\ ret' = ret
       ELSE Return(t, [NoRet EXCEPT !.op = "GetMulti", !.rc = loc[t].rc])
    /\ UNCHANGED <<Config, heap, m, writer, readers, now, gc, lastSet, sinceFlush, ops, left, own>>

\* ---------------------------------------------------------------- Delete
DeleteCall(t, k) ==
    /\ Invoke(t, "del_lock", [NoLoc EXCEPT !.op = "Delete", !.key = k])
    /\ own' = OwnWrite(t, k, Nil)
    /\ UNCHANGED <<Config, heap, m, writer, readers, now, gc, lastSet, sinceFlush>>

\* c.mutex.Lock()
DeleteLock(t) ==
    /\ pc[t] = "del_lock"
    /\ CanLock
    /\ writer' = t
    /\ pc' = [pc EXCEPT ![t] = "del_check"]
    /\ UNCHANGED <<Config, heap, m, readers, now, loc, ret, gc, lastSet, sinceFlush, ops, left, own>>

\* A Delete that never reports a missing key.
DeleteMissingNever(mp, k) == FALSE

\* Delete, line 120: whether the key is missing
DeleteMissing(mp, k) == k \notin DOMAIN mp

\* A Delete that returns ErrKeyNotFound without the Unlock.
DeleteCheckKeepsLock(t) ==
    /\ pc[t] = "del_check"
    /\ lastSet' = [lastSet EXCEPT ![loc[t].key] = NoSet]
    /\ writer' = writer
    /\ IF DeleteMissing(heap[m], loc[t].key)
       THEN Return(t, [NoRet EXCEPT !.op = "Delete", !.key = loc[t].key,
                                    !.err = ErrKeyNotFound])
       ELSE /\ pc' = [pc EXCEPT ![t] = "del_remove"]
            /\ UNCHANGED <<loc, ret>>
    /\ UNCHANGED <<Config, heap, m, readers, now, gc, sinceFlush, ops, left, own>>

\* if _, ok := c.m[key]; !ok { return ErrKeyNotFound }
DeleteCheck(t) ==
    /\ pc[t] = "del_check"
    /\ lastSet' = [lastSet EXCEPT ![loc[t].key] = NoSet]
    /\ IF DeleteMissing(heap[m], loc[t].key)
       THEN /\ writer' = "none"
            /\ Return(t, [NoRet EXCEPT !.op = "Delete", !.key = loc[t].key,
                                       !.err = ErrKeyNotFound])
       ELSE /\ writer' = writer
            /\ pc' = [pc EXCEPT ![t] = "del_remove"]
            /\ UNCHANGED <<loc, ret>>
    /\ UNCHANGED <<Config, heap, m, readers, now, gc, sinceFlush, ops, left, own>>

\* delete(c.m, key), the deferred Unlock and return nil
DeleteRemove(t) ==
    /\ pc[t] = "del_remove"
    /\ heap' = [heap EXCEPT ![m] = MapDelete(@, loc[t].key)]
    /\ writer' = "none"
    /\ Return(t, [NoRet EXCEPT !.op = "Delete", !.key = loc[t].key])
    /\ own' = OtherWrite(t, loc[t].key, Nil)
    /\ UNCHANGED <<Config, m, readers, now, gc, lastSet, sinceFlush, ops, left>>

\* --------------------------------------------------------------- IsExist
IsExistCall(t, k) ==
    /\ Invoke(t, "exist_rlock", [NoLoc EXCEPT !.op = "IsExist", !.key = k])
    /\ UNCHANGED <<Config, heap, m, writer, readers, now, gc, lastSet, sinceFlush, own>>

\* c.mutex.RLock()
IsExistRLock(t) ==
    /\ pc[t] = "exist_rlock"
    /\ CanRLock
    /\ readers' = readers \cup {t}
    /\ pc' = [pc EXCEPT ![t] = "exist_body"]
    /\ UNCHANGED <<Config, heap, m, writer, now, loc, ret, gc, lastSet, sinceFlush, ops, left, own>>

\* An IsExist that takes an expired entry for a missing one.
IsExistResultFresh(mp, k) ==
    k \in DOMAIN mp /\ ~(mp[k].Expiration > 0 /\ now > mp[k].Expiration)

\* IsExist, lines 136-138
IsExistResult(mp, k) == k \in DOMAIN mp

\* the lookup, the deferred RUnlock and the return
IsExistBody(t) ==
    /\ pc[t] = "exist_body"
    /\ readers' = readers \ {t}
    /\ Return(t, [NoRet EXCEPT !.op = "IsExist", !.key = loc[t].key,
                               !.ok = IsExistResult(heap[m], loc[t].key)])
    /\ UNCHANGED <<Config, heap, m, writer, now, gc, lastSet, sinceFlush, ops, left, own>>

\* ---------------------------------------------------------------- Expire
ExpireCall(t, k) ==
    /\ Invoke(t, "expire_rlock", [NoLoc EXCEPT !.op = "Expire", !.key = k])
    /\ UNCHANGED <<Config, heap, m, writer, readers, now, gc, lastSet, sinceFlush, own>>

\* c.mutex.RLock()
ExpireRLock(t) ==
    /\ pc[t] = "expire_rlock"
    /\ CanRLock
    /\ readers' = readers \cup {t}
    /\ pc' = [pc EXCEPT ![t] = "expire_body"]
    /\ UNCHANGED <<Config, heap, m, writer, now, loc, ret, gc, lastSet, sinceFlush, ops, left, own>>

\* An Expire that reports an entry expired from the instant of its expiration on.
ExpireResultAtExpiration(mp, k) ==
    IF k \notin DOMAIN mp THEN <<FALSE, ErrKeyNotFound>>
    ELSE IF now >= mp[k].Expiration /\ mp[k].Expiration > 0 THEN <<TRUE, ErrNil>>
    ELSE <<FALSE, ErrNil>>

\* Expire, lines 149-158: the flag and the error
ExpireResult(mp, k) ==
    IF k \notin DOMAIN mp THEN <<FALSE, ErrKeyNotFound>>
    ELSE IF now > mp[k].Expiration /\ mp[k].Expiration > 0 THEN <<TRUE, ErrNil>>
    ELSE <<FALSE, ErrNil>>

\* the lookup, the expiry check, the deferred RUnlock and the return
ExpireBody(t) ==
    /\ pc[t] = "expire_body"
    /\ readers' = readers \ {t}
    /\ LET r == ExpireResult(heap[m], loc[t].key) IN
        Return(t, [NoRet EXCEPT !.op = "Expire", !.key = loc[t].key,
                                !.ok = r[1], !.err = r[2]])
    /\ UNCHANGED <<Config, heap, m, writer, now, gc, lastSet, sinceFlush, ops, left, own>>

\* -------------------------------------------------------------- FlushAll
\* A FlushAll that allocates the map and does not store it in c.m.
FlushMapsNotStored == <<Append(heap, NewMap), m>>

\* FlushAll, lines 163-165: the maps and c.m after the call
FlushMaps == <<Append(heap, NewMap), Len(heap) + 1>>

\* A FlushAll that replaces the map between Lock and Unlock.
FlushAllLocked(t) ==
    /\ pc[t] = "idle"
    /\ left[t] > 0
    /\ Len(heap) <= MaxFlush
    /\ CanLock
    /\ left' = [left EXCEPT ![t] = @ - 1]
    /\ ops' = ops + 1
    /\ heap' = FlushMaps[1]
    /\ m' = FlushMaps[2]
    /\ ret' = [NoRet EXCEPT !.op = "FlushAll"]
    /\ lastSet' = [k \in Keys |-> NoSet]
    /\ sinceFlush' = {}
    /\ own' = OwnFlush(t)
    /\ UNCHANGED <<Config, writer, readers, now, pc, loc, gc>>

\* FlushAll takes no lock: the fresh map is stored in c.m in one step, which is
\* the call and the return as well (runtime.GC() changes nothing of the cache)
FlushAll(t) ==
    /\ pc[t] = "idle"
    /\ left[t] > 0
    /\ Len(heap) <= MaxFlush
    /\ left' = [left EXCEPT ![t] = @ - 1]
    /\ ops' = ops + 1
    /\ heap' = FlushMaps[1]
    /\ m' = FlushMaps[2]
    /\ ret' = [NoRet EXCEPT !.op = "FlushAll"]
    /\ lastSet' = [k \in Keys |-> NoSet]
    /\ sinceFlush' = {}
    /\ own' = OwnFlush(t)
    /\ UNCHANGED <<Config, writer, readers, now, pc, loc, gc>>

\* -------------------------------------------------------- the GC goroutine
\* expiredKeys, line 191: whether the sweep takes an entry for expired
IsExpired(e) == now > e.Expiration /\ e.Expiration > 0

\* <-time.After(c.cleanupInterval)
GCWake ==
    /\ gc.pc = "wait"
    /\ now >= gc.due
    /\ gc' = [gc EXCEPT !.pc = "check"]
    /\ UNCHANGED <<Config, heap, m, writer, readers, now, pc, loc, ret, lastSet, sinceFlush, ops, left, own>>

\* A GC that goes on to the scan whatever len(c.m) is.
GCCheckNeverStops ==
    /\ gc.pc = "check"
    /\ gc' = [gc EXCEPT !.pc = "scan_rlock"]
    /\ UNCHANGED <<Config, heap, m, writer, readers, now, pc, loc, ret, lastSet, sinceFlush, ops, left, own>>

\* if len(c.m) == 0 { return }: read without the lock
GCCheck ==
    /\ gc.pc = "check"
    /\ gc' = [gc EXCEPT !.pc = IF DOMAIN heap[m] = {} THEN "done" ELSE "scan_rlock"]
    /\ UNCHANGED <<Config, heap, m, writer, readers, now, pc, loc, ret, lastSet, sinceFlush, ops, left, own>>

\* expiredKeys: c.mutex.RLock() and the start of range c.m
GCRLock ==
    /\ gc.pc = "scan_rlock"
    /\ CanRLock
    /\ readers' = readers \cup {"gc"}
    /\ gc' = [gc EXCEPT !.pc = "scan", !.mref = m, !.todo = DOMAIN heap[m]]
    /\ UNCHANGED <<Config, heap, m, writer, now, pc, loc, ret, lastSet, sinceFlush, ops, left, own>>

\* expiredKeys: one iteration of the range loop, in the map's own order
GCScan(k) ==
    /\ gc.pc = "scan"
    /\ k \in gc.todo
    /\ gc' = [gc EXCEPT !.todo = @ \ {k},
                        !.keys = IF IsExpired(heap[gc.mref][k]) THEN Append(@, k) ELSE @]
    /\ UNCHANGED <<Config, heap, m, writer, readers, now, pc, loc, ret, lastSet, sinceFlush, ops, left, own>>

\* expiredKeys returns (deferred RUnlock); GC goes on to clearItems or waits again
GCScanDone ==
    /\ gc.pc = "scan"
    /\ gc.todo = {}
    /\ readers' = readers \ {"gc"}
    /\ gc' = IF gc.keys = <<>> THEN GCIdle("wait", now + cleanupInterval)
                               ELSE [gc EXCEPT !.pc = "clear_lock", !.mref = 0]
    /\ UNCHANGED <<Config, heap, m, writer, now, pc, loc, ret, lastSet, sinceFlush, ops, left, own>>

\* clearItems: c.mutex.Lock()
GCLock ==
    /\ gc.pc = "clear_lock"
    /\ CanLock
    /\ writer' = "gc"
    /\ gc' = [gc EXCEPT !.pc = "clear"]
    /\ UNCHANGED <<Config, heap, m, readers, now, pc, loc, ret, lastSet, sinceFlush, ops, left, own>>

\* A clearItems that deletes a key only if its entry is still expired.
GCClearRechecks ==
    /\ gc.pc = "clear"
    /\ LET k == Head(gc.keys) IN
        heap' = IF k \in DOMAIN heap[m] /\ IsExpired(heap[m][k])
                THEN [heap EXCEPT ![m] = MapDelete(@, k)]
                ELSE heap
    /\ IF Tail(gc.keys) = <<>>
       THEN /\ writer' = "none"
            /\ gc' = GCIdle("wait", now + cleanupInterval)
       ELSE /\ writer' = writer
            /\ gc' = [gc EXCEPT !.keys = Tail(@)]
    /\ own' = OtherWrite("gc", Head(gc.keys), Nil)
    /\ UNCHANGED <<Config, m, readers, now, pc, loc, ret, lastSet, sinceFlush, ops, left>>

\* clearItems: delete(c.m, k) for the next key; after the last one the deferred
\* Unlock, and GC waits again
GCClear ==
    /\ gc.pc = "clear"
    /\ heap' = [heap EXCEPT ![m] = MapDelete(@, Head(gc.keys))]
    /\ IF Tail(gc.keys) = <<>>
       THEN /\ writer' = "none"
            /\ gc' = GCIdle("wait", now + cleanupInterval)
       ELSE /\ writer' = writer
            /\ gc' = [gc EXCEPT !.keys = Tail(@)]
    /\ own' = OtherWrite("gc", Head(gc.keys), Nil)
    /\ UNCHANGED <<Config, m, readers, now, pc, loc, ret, lastSet, sinceFlush, ops, left>>

\* ------------------------------------------------------------------ Next
Next ==
    \/ Tick
    \/ \E t \in Callers :
        \/ \E k \in Keys, d \in Durations : SetCall(t, k, d)
        \/ SetLock(t)
        \/ SetLoad(t)
        \/ SetWrite(t)
        \/ \E k \in Keys : GetCall(t, k)
        \/ GetRLock(t)
        \/ GetBody(t)
        \/ \E ks \in KeyLists : GetMultiCall(t, ks)
        \/ GetMultiLoop(t)
        \/ \E k \in Keys : DeleteCall(t, k)
        \/ DeleteLock(t)
        \/ DeleteCheck(t)
        \/ DeleteRemove(t)
        \/ \E k \in Keys : IsExistCall(t, k)
        \/ IsExistRLock(t)
        \/ IsExistBody(t)
        \/ \E k \in Keys : ExpireCall(t, k)
        \/ ExpireRLock(t)
        \/ ExpireBody(t)
        \/ FlushAll(t)
    \/ GCWake
    \/ GCCheck
    \/ GCRLock
    \/ \E k \in Keys : GCScan(k)
    \/ GCScanDone
    \/ GCLock
    \/ GCClear

Spec == Init /\ [][Next]_vars

\* A cache constructed with defaultExpiration <= 0 and a running GC goroutine.
InitForever == Init /\ defaultExpiration <= 0 /\ cleanupInterval > 0
SpecForever == InitForever /\ [][Next]_vars

\* ------------------------------------------------------------- scheduling
\* a step of the operation caller t is in; the call itself is the caller's choice
CallerStep(t) ==
    \/ SetLock(t) \/ SetLoad(t) \/ SetWrite(t)
    \/ GetRLock(t) \/ GetBody(t) \/ GetMultiLoop(t)
    \/ DeleteLock(t) \/ DeleteCheck(t) \/ DeleteRemove(t)
    \/ IsExistRLock(t) \/ IsExistBody(t)
    \/ ExpireRLock(t) \/ ExpireBody(t)

\* a step of the GC goroutine
GCStep ==
    \/ GCWake \/ GCCheck \/ GCRLock \/ (\E k \in Keys : GCScan(k))
    \/ GCScanDone \/ GCLock \/ GCClear

\* The Go scheduler runs every runnable goroutine, time passes, and
\* sync.RWMutex lets no waiter starve: a blocked Lock keeps new readers out,
\* and a released Lock lets the waiting readers in.
Fairness ==
    /\ WF_vars(Tick)
    /\ SF_vars(GCStep)
    /\ \A t \in Callers : SF_vars(CallerStep(t))

\* A cache with no default expiration and a running GC goroutine, and two
\* callers with one operation each, under that scheduling.
InitFair ==
    /\ Init
    /\ defaultExpiration <= 0
    /\ cleanupInterval > 0
    /\ left = [t \in Callers |-> 1]
FairSpec == InitFair /\ [][Next]_vars /\ Fairness

\* A cache with no default expiration and a running GC goroutine, in which
\* caller c1 has just called Set or Delete of k1, its first operation of two,
\* beside caller c2 with one operation.
InitOrder ==
    /\ defaultExpiration \in DefaultExpirations
    /\ defaultExpiration <= 0
    /\ cleanupInterval \in CleanupIntervals
    /\ cleanupInterval > 0
    /\ heap = <<NewMap>>
    /\ m = 1
    /\ writer = "none"
    /\ readers = {}
    /\ now = 1
    /\ \/ \E d \in Durations :
            /\ pc = [t \in Callers |-> IF t = "c1" THEN "set_lock" ELSE "idle"]
            /\ loc = [t \in Callers |->
                        IF t = "c1" THEN [NoLoc EXCEPT !.op = "Set", !.key = "k1", !.val = 1,
                                                       !.ttl = d, !.exp = Expiration(d)]
                                    ELSE NoLoc]
            /\ own = [t \in Callers |-> [k \in Keys |->
                        IF t = "c1" /\ k = "k1" THEN {1} ELSE {}]]
       \/ /\ pc = [t \in Callers |-> IF t = "c1" THEN "del_lock" ELSE "idle"]
          /\ loc = [t \in Callers |->
                        IF t = "c1" THEN [NoLoc EXCEPT !.op = "Delete", !.key = "k1"]
                                    ELSE NoLoc]
          /\ own = [t \in Callers |-> [k \in Keys |->
                        IF t = "c1" /\ k = "k1" THEN {Nil} ELSE {}]]
    /\ ret = NoRet
    /\ gc = GCIdle("wait", now + cleanupInterval)
    /\ lastSet = [k \in Keys |-> NoSet]
    /\ sinceFlush = Keys
    /\ ops = 1
    /\ left = [t \in Callers |-> 1]
SpecOrder == InitOrder /\ [][Next]_vars

\* ------------------------------------------------------ steps and states
\* the step in which caller t returns from the operation at label
Returns(t, label) == pc[t] = label /\ pc'[t] = "idle"

\* the step in which Get, called directly by t, returns
GetReturns(t) == Returns(t, "get_body") /\ loc[t].op = "Get"

\* the step in which a Get called by t's GetMulti returns
InnerGetReturns(t) == pc[t] = "get_body" /\ pc'[t] = "gm_loop"

\* k is in the current map
Present(k) == k \in DOMAIN heap[m]

\* k is in the current map and past its expiration
Stale(k) == Present(k) /\ heap[m][k].Expiration > 0 /\ now > heap[m][k].Expiration

\* C1: Get(k) returns KeyNotFound when k is absent, CacheStale with a nil value
\* when k is present with a positive expiration that now exceeds, and the
\* stored payload with no error otherwise.
C1_GetContract ==
    [][\A t \in Callers : GetReturns(t) =>
        LET k == loc[t].key IN
        /\ ~Present(k) => ret'.val = Nil /\ ret'.err = ErrKeyNotFound
        /\ Stale(k) => ret'.val = Nil /\ ret'.err = ErrCacheIsOut
        /\ Present(k) /\ ~Stale(k) => ret'.val = heap[m][k].Value /\ ret'.err = ErrNil
    ]_vars

\* C1: a Get has returned CacheStale for an entry that is still in the map.
C1_Witness ==
    /\ ret.op = "Get"
    /\ ret.err = ErrCacheIsOut
    /\ Stale(ret.key)

\* C2: Set stores an entry whose expiration is now + ttl' when ttl' > 0 and 0
\* otherwise, where ttl' is defaultExpiration when ttl = 0 and ttl otherwise,
\* and now is the time of the call; a negative ttl gives 0 whatever the default.
C2_SetExpiration ==
    [][\A t \in Callers :
        /\ (pc[t] = "idle" /\ pc'[t] = "set_lock") =>
            LET ttl == loc'[t].ttl
                eff == IF ttl = 0 THEN defaultExpiration ELSE ttl
            IN /\ eff > 0 => loc'[t].exp = now + eff
               /\ eff <= 0 => loc'[t].exp = 0
               /\ ttl < 0 => loc'[t].exp = 0
        /\ Returns(t, "set_write") =>
            /\ loc[t].key \in DOMAIN heap'[loc[t].mref]
            /\ heap'[loc[t].mref][loc[t].key].Expiration = loc[t].exp
            /\ heap'[loc[t].mref][loc[t].key].Value = loc[t].val
    ]_vars

\* C2: an entry stored with a negative ttl by a cache whose default is
\* positive is in the map and never expires.
C2_Witness ==
    \E k \in Keys :
        /\ defaultExpiration > 0
        /\ lastSet[k].set /\ lastSet[k].ttl < 0
        /\ Present(k)
        /\ heap[m][k].Value = lastSet[k].val
        /\ heap[m][k].Expiration = 0

\* C3, as claimed: after Set(k, v, ttl) with ttl <= 0 and no later Set, Delete
\* or FlushAll on k, every Get(k) returns v with no error.
C3_AsClaimed ==
    [][\A t \in Callers : GetReturns(t) =>
        LET s == lastSet[loc[t].key] IN
        (s.set /\ s.ttl <= 0) => ret'.val = s.val /\ ret'.err = ErrNil
    ]_vars

\* C4, as claimed: an entry whose expiration is not positive is never reported
\* stale by Get or Expire and is never removed from the map by the sweep.
C4_AsClaimed ==
    [][/\ \A t \in Callers :
            LET k == loc[t].key IN
            /\ (GetReturns(t) /\ Present(k) /\ heap[m][k].Expiration <= 0)
                    => ret'.err = ErrNil
            /\ (Returns(t, "expire_body") /\ Present(k) /\ heap[m][k].Expiration <= 0)
                    => ret'.ok = FALSE /\ ret'.err = ErrNil
       /\ (gc.pc = "clear" /\ gc' # gc /\ Present(Head(gc.keys)))
            => heap[m][Head(gc.keys)].Expiration > 0
    ]_vars

\* C5, as claimed: after two Sets of k with different TTLs the entry is the
\* second one's alone: a Get before the second expiration returns the second
\* payload with no error, and a Get after it returns no payload.
C5_AsClaimed ==
    [][\A t \in Callers : GetReturns(t) =>
        LET s == lastSet[loc[t].key] IN
        (s.set /\ s.exp > 0) =>
            IF s.exp > 0 /\ now > s.exp
            THEN ret'.val = Nil /\ ret'.err # ErrNil
            ELSE ret'.val = s.val /\ ret'.err = ErrNil
    ]_vars

\* C6: Delete(k) returns KeyNotFound and leaves the map as it is when k is
\* absent; when k is present it removes k and nothing else and returns nil.
C6_DeleteContract ==
    [][\A t \in Callers :
        LET k == loc[t].key IN
        /\ (pc[t] = "del_check" /\ pc'[t] # "del_check") =>
            IF Present(k)
            THEN pc'[t] = "del_remove" /\ heap' = heap /\ m' = m
            ELSE pc'[t] = "idle" /\ ret'.err = ErrKeyNotFound /\ heap' = heap /\ m' = m
        /\ Returns(t, "del_remove") =>
            /\ ret'.err = ErrNil
            /\ m' = m
            /\ DOMAIN heap'[m] = (DOMAIN heap[m]) \ {k}
            /\ \A x \in DOMAIN heap'[m] : heap'[m][x] = heap[m][x]
            /\ \A i \in 1..Len(heap) : i # m => heap'[i] = heap[i]
    ]_vars

\* C6: a Delete has returned nil, its key is gone and another entry is left.
C6_Witness ==
    /\ ret.op = "Delete"
    /\ ret.err = ErrNil
    /\ ~Present(ret.key)
    /\ DOMAIN heap[m] # {}

\* C7: IsExist(k) reports whether k is in the map, whatever its expiration:
\* for an entry past its expiration Get returns CacheStale and IsExist true,
\* and such an entry leaves the map only by Delete(k), FlushAll or the sweep.
C7_ExistsIgnoresExpiration ==
    [][/\ \A t \in Callers :
            /\ Returns(t, "exist_body") => ret'.ok = Present(loc[t].key)
            /\ (Returns(t, "exist_body") /\ Stale(loc[t].key)) => ret'.ok = TRUE
            /\ (GetReturns(t) /\ Stale(loc[t].key)) => ret'.err = ErrCacheIsOut
       /\ \A k \in Keys :
            (Stale(k) /\ k \notin DOMAIN heap'[m']) =>
                \/ \E t \in Callers : Returns(t, "del_remove") /\ loc[t].key = k
                \/ m' # m
                \/ gc.pc = "clear" /\ gc' # gc /\ Head(gc.keys) = k
    ]_vars

\* C7: IsExist has returned true for an entry past its expiration.
C7_Witness ==
    /\ ret.op = "IsExist"
    /\ ret.ok
    /\ Stale(ret.key)

\* C8: Expire(k) returns (false, KeyNotFound) when k is absent; when k is
\* present it returns true exactly when expiration > 0 and now > expiration,
\* with no error.
C8_ExpireContract ==
    [][\A t \in Callers : Returns(t, "expire_body") =>
        LET k == loc[t].key IN
        /\ ~Present(k) => ret'.ok = FALSE /\ ret'.err = ErrKeyNotFound
        /\ Present(k) =>
            /\ ret'.err = ErrNil
            /\ ret'.ok = (heap[m][k].Expiration > 0 /\ now > heap[m][k].Expiration)
    ]_vars

\* C8: Expire has returned false for an entry at the instant of its expiration.
C8_Witness ==
    /\ ret.op = "Expire"
    /\ ret.ok = FALSE
    /\ ret.err = ErrNil
    /\ Present(ret.key)
    /\ heap[m][ret.key].Expiration = now

\* C9: GetMulti(keys) returns a list as long as keys whose i-th element is the
\* payload of keys[i] when that key is present and fresh at its lookup and nil
\* otherwise; it returns no error.
C9_GetMultiContract ==
    [][\A t \in Callers :
        /\ InnerGetReturns(t) =>
            LET i == Len(loc[t].rc) + 1
                k == loc[t].keys[i]
            IN /\ loc[t].key = k
               /\ Len(loc'[t].rc) = i
               /\ \A j \in 1..(i - 1) : loc'[t].rc[j] = loc[t].rc[j]
               /\ loc'[t].rc[i] = IF Present(k) /\ ~Stale(k) THEN heap[m][k].Value ELSE Nil
        /\ Returns(t, "gm_loop") =>
            /\ ret'.rc = loc[t].rc
            /\ Len(ret'.rc) = Len(loc[t].keys)
            /\ ret'.err = ErrNil
    ]_vars

\* C9: GetMulti has returned nil for a missing first key and the payload of a
\* second key that is still in the map.
C9_Witness ==
    /\ ret.op = "GetMulti"
    /\ Len(ret.rc) = 2
    /\ ret.rc[1] = Nil
    /\ \E k \in Keys : Present(k) /\ ret.rc[2] = heap[m][k].Value

\* C10: after a FlushAll, for every key not stored again since, IsExist
\* returns false and Get returns KeyNotFound.
C10_FlushAllEmpties ==
    [][\A t \in Callers :
        /\ (GetReturns(t) /\ loc[t].key \notin sinceFlush)
                => ret'.val = Nil /\ ret'.err = ErrKeyNotFound
        /\ (Returns(t, "exist_body") /\ loc[t].key \notin sinceFlush)
                => ret'.ok = FALSE
    ]_vars

\* C10: Get has returned KeyNotFound for a key that was in the map FlushAll
\* replaced and has not been stored since.
C10_Witness ==
    /\ ret.op = "Get"
    /\ ret.err = ErrKeyNotFound
    /\ m > 1
    /\ ret.key \in DOMAIN heap[m - 1]
    /\ ret.key \notin sinceFlush

\* the operations that only read
ReadOps == {"Get", "GetMulti", "IsExist", "Expire"}

\* a step of caller t inside operation op, its call included
StepOf(t, op) ==
    /\ <<pc[t], loc[t]>> # <<pc'[t], loc'[t]>>
    /\ loc[t].op = op \/ (pc[t] = "idle" /\ loc'[t].op = op)

\* C11: no step of Get, GetMulti, IsExist or Expire changes a map or c.m; a Get
\* that returns CacheStale leaves the entry where it was, payload and
\* expiration as they were.
C11_ReadsLeaveMap ==
    [][\A t \in Callers :
        /\ (\E op \in ReadOps : StepOf(t, op)) => heap' = heap /\ m' = m
        /\ (GetReturns(t) /\ Stale(loc[t].key)) =>
            /\ ret'.err = ErrCacheIsOut
            /\ loc[t].key \in DOMAIN heap'[m']
            /\ heap'[m'][loc[t].key] = heap[m][loc[t].key]
    ]_vars

\* C11: a Get has returned CacheStale and the entry is in the map as the last
\* Set of its key stored it.
C11_Witness ==
    /\ ret.op = "Get"
    /\ ret.err = ErrCacheIsOut
    /\ Stale(ret.key)
    /\ lastSet[ret.key].set
    /\ heap[m][ret.key] = Value(lastSet[ret.key].val, lastSet[ret.key].exp)

\* C12: as claimed, in a cache with cleanupInterval > 0 an entry that has
\* expired does not stay: it is swept (or deleted, flushed or set again). The
\* clock of the model stops at MaxTime, so the claim is made for the sweeps
\* whose timer fires by then.
C12_AsClaimed ==
    \A k \in Keys :
        [](Stale(k) /\ gc.due <= MaxTime => <>(~Stale(k) \/ gc.due > MaxTime))

\* C13: in a cache with cleanupInterval <= 0 the GC goroutine is never
\* started, a key leaves the map only in Delete's delete(c.m, key) or in
\* FlushAll's replacement of the map, and Get and Expire report an entry as
\* expired exactly when it is.
C13_NoSweep ==
    [][cleanupInterval <= 0 =>
        /\ gc.pc = "off" /\ gc' = gc
        /\ \A k \in Keys : (Present(k) /\ k \notin DOMAIN heap'[m']) =>
            \/ \E t \in Callers : Returns(t, "del_remove") /\ loc[t].key = k
            \/ m' # m
        /\ \A t \in Callers :
            /\ GetReturns(t) => (ret'.err = ErrCacheIsOut <=> Stale(loc[t].key))
            /\ Returns(t, "expire_body") => (ret'.ok <=> Stale(loc[t].key))
    ]_vars

\* C13: with no GC goroutine, Expire has reported an entry as expired, and the
\* entry is in the map.
C13_Witness ==
    /\ cleanupInterval <= 0
    /\ gc.pc = "off"
    /\ ret.op = "Expire"
    /\ ret.ok
    /\ Stale(ret.key)

\* the goroutines between Lock and Unlock: Set, Delete, clearItems
InsideWrite ==
    {t \in Callers : pc[t] \in {"set_load", "set_write", "del_check", "del_remove"}}
        \cup (IF gc.pc = "clear" THEN {"gc"} ELSE {})

\* the goroutines between RLock and RUnlock: Get, IsExist, Expire, expiredKeys
InsideRead ==
    {t \in Callers : pc[t] \in {"get_body", "exist_body", "expire_body"}}
        \cup (IF gc.pc = "scan" THEN {"gc"} ELSE {})

\* C14: at most one goroutine is between Lock and Unlock, and while one is, none
\* is between RLock and RUnlock; the mutex records exactly the goroutines inside.
C14_MutualExclusion ==
    /\ Cardinality(InsideWrite) <= 1
    /\ InsideWrite # {} => InsideRead = {}
    /\ InsideWrite = (IF writer = "none" THEN {} ELSE {writer})
    /\ InsideRead = readers

\* C14: two goroutines are between RLock and RUnlock together.
C14_Witness == Cardinality(InsideRead) >= 2

\* C15: every operation a caller is in returns, whatever the other caller and
\* the GC goroutine do with the mutex meanwhile; a goroutine outside its
\* critical section holds neither side of the mutex, whichever way it left.
C15_Returns ==
    /\ \A t \in Callers : (pc[t] # "idle") ~> (pc[t] = "idle")
    /\ [](\A t \in Callers \cup {"gc"} :
            t \notin InsideWrite \cup InsideRead => writer # t /\ t \notin readers)

\* C15: Delete has returned ErrKeyNotFound, its early return, and now the other
\* caller holds the Lock.
C15_Witness ==
    /\ ret.op = "Delete"
    /\ ret.err = ErrKeyNotFound
    /\ writer \in Callers

\* the step in which key k leaves the map through Delete or FlushAll
RemovedByCaller(k) ==
    \/ \E t \in Callers : Returns(t, "del_remove") /\ loc[t].key = k
    \/ m' # m

\* C17: GC returns when, awake, it finds the map empty, and only then; once it
\* has returned nothing starts it again, and a key leaves the map only through
\* Delete or FlushAll, however long the entry has been expired.
C17_SweepStops ==
    [][/\ (gc.pc = "check" /\ gc' # gc) => (gc'.pc = "done" <=> DOMAIN heap[m] = {})
       /\ (gc.pc # "done" /\ gc'.pc = "done") => (gc.pc = "check" /\ DOMAIN heap[m] = {})
       /\ gc.pc # "off" => gc'.pc # "off"
       /\ gc.pc = "done" =>
            /\ gc' = gc
            /\ \A k \in Keys :
                (Present(k) /\ k \notin DOMAIN heap'[m']) => RemovedByCaller(k)
    ]_vars

\* C17: GC has returned and an entry stored since has expired and is in the map.
C17_Witness ==
    /\ gc.pc = "done"
    /\ \E k \in Keys : Stale(k)

\* C18: expiredKeys lists a key exactly when it finds its entry expired; the
\* list reaches clearItems as it was returned; clearItems deletes from c.m the
\* keys of the list, one by one, whatever their entries are by then, a fresh
\* entry stored since the scan included; no other step of GC changes a map.
C18_SweepDeletesScanned ==
    [][/\ \A k \in Keys : (gc.pc = "scan" /\ k \in gc.todo /\ gc'.todo = gc.todo \ {k}) =>
            gc'.keys = IF IsExpired(heap[gc.mref][k]) THEN Append(gc.keys, k)
                                                     ELSE gc.keys
       /\ (gc.pc = "scan" /\ gc'.pc = "clear_lock") => gc'.keys = gc.keys
       /\ gc.pc = "clear_lock" => gc'.keys = gc.keys
       /\ (gc.pc = "clear" /\ gc' # gc) =>
            /\ heap' = [heap EXCEPT ![m] = MapDelete(@, Head(gc.keys))]
            /\ Head(gc.keys) \notin DOMAIN heap'[m']
            /\ gc'.pc = "clear" => gc'.keys = Tail(gc.keys)
            /\ gc'.pc # "clear" => Tail(gc.keys) = <<>>
       /\ (gc.pc # "clear" /\ gc' # gc) => heap' = heap /\ m' = m
    ]_vars

\* C18: an entry stored by Set whose expiration is still ahead has left the map
\* with no Delete and no FlushAll: the sweep that had found the key's earlier
\* entry expired deleted it.
C18_Witness ==
    \E k \in Keys :
        /\ lastSet[k].set
        /\ lastSet[k].exp > now
        /\ ~Present(k)

\* C19: FlushAll never waits for the mutex: a caller that may call it can do so
\* whoever is between Lock and Unlock or between RLock and RUnlock, and the
\* call replaces c.m and leaves the mutex as it is.  A Set that loaded the map
\* before the replacement stores into that map, and the map in c.m does not
\* get the entry.
C19_FlushAllUnlocked ==
    [][/\ \A t \in Callers :
            (pc[t] = "idle" /\ left[t] > 0 /\ Len(heap) <= MaxFlush) => ENABLED FlushAll(t)
       /\ m' # m => /\ UNCHANGED <<writer, readers>>
                    /\ heap'[m'] = NewMap
       /\ \A t \in Callers :
            (Returns(t, "set_write") /\ loc[t].mref # m) =>
                /\ heap'[m'] = heap[m]
                /\ loc[t].key \in DOMAIN heap'[loc[t].mref]
    ]_vars

\* C19: a Set has returned after a FlushAll that replaced the map while the Set
\* was between Lock and Unlock: its entry is in the discarded map and the key
\* is not in c.m.
C19_Witness ==
    /\ ret.op = "Set"
    /\ m > 1
    /\ ~lastSet[ret.key].set
    /\ ~Present(ret.key)
    /\ ret.key \in DOMAIN heap[m - 1]

\* C20: as claimed, FlushAll apart, a goroutine reads or writes the map only
\* between RLock and RUnlock or between Lock and Unlock: the callers in the
\* bodies of Get, IsExist and Expire and of Set and Delete, and GC in its
\* emptiness check, its scan and its deletions; and a map changes only under
\* the Lock.
C20_AsClaimed ==
    [][/\ \A t \in Callers :
            /\ (pc[t] \in {"get_body", "exist_body", "expire_body"} /\ pc'[t] # pc[t]) =>
                    t \in readers
            /\ (pc[t] \in {"set_load", "set_write", "del_check", "del_remove"}
                    /\ pc'[t] # pc[t]) => writer = t
       /\ (gc.pc \in {"check", "scan"} /\ gc' # gc) => ("gc" \in readers \/ writer = "gc")
       /\ (gc.pc = "clear" /\ gc' # gc) => writer = "gc"
       /\ (heap' # heap /\ m' = m) => writer # "none"
    ]_vars

\* what c.m holds for key k: the payload, or Nil for no entry
StateOf(k) == IF Present(k) THEN heap[m][k].Value ELSE Nil

====
